---- MODULE Spec2Model ----
(***************************************************************************)
(* A model of app.py, the product/order service that keeps its whole       *)
(* state in one JSON file (db.json).  The state is the file, the process-  *)
(* wide lock and, per request thread, the request being served, the        *)
(* position in its handler and the document it is about to write.          *)
(*                                                                         *)
(* Encodings.  A JSON scalar of a request body is a record                 *)
(* [t, n, s]: t is its JSON type ("absent" when the key is not in the      *)
(* body), n a number in tenths (25 is 2.5), s a string.  A stored price is *)
(* a number in tenths.  Path.write_text is two file operations: open(..,   *)
(* "w"), which creates or truncates the file, and the write of the text;   *)
(* the documents of the model are far below the stream buffer's size, so   *)
(* the text reaches the file in one write.                                 *)
(***************************************************************************)
EXTENDS Integers, Sequences, FiniteSets, TLC

VARIABLES file, lock, pc, req, buf, resp, nreq

vars == <<file, lock, pc, req, buf, resp, nreq>>

(***************************************************************************)
(* Bounds of the model.                                                    *)
(***************************************************************************)
\* requests served in one behaviour of Spec
MaxReq == 4
Threads == {"t1", "t2"}
SeqThread == "t1"
NoThread == "none"

(***************************************************************************)
(* JSON scalars of a request body.                                         *)
(***************************************************************************)
JAbsent == [t |-> "absent", n |-> 0, s |-> ""]
JNull == [t |-> "null", n |-> 0, s |-> ""]
JNum(n) == [t |-> "num", n |-> n, s |-> ""]
JStr(s) == [t |-> "str", n |-> 0, s |-> s]

\* body.get(key): a missing key reads as None
BodyGet(v) == IF v.t = "absent" THEN JNull ELSE v

\* Python truth of a scalar: None, 0 and "" are false
Truthy(v) ==
    CASE v.t = "num" -> v.n # 0
      [] v.t = "str" -> v.s # ""
      [] OTHER -> FALSE

\* str(n) of a number given in tenths, on the numbers the requests use
NumStr(n) ==
    CASE n = 0 -> "0"
      [] n = 10 -> "1"
      [] n = 20 -> "2"
      [] n = 25 -> "2.5"
      [] n = -10 -> "-1"
      [] OTHER -> "num"

\* str(v)
PyStr(v) ==
    CASE v.t = "str" -> v.s
      [] v.t = "num" -> NumStr(v.n)
      [] OTHER -> "None"

\* str.strip() on the strings the requests use
Strip(s) ==
    CASE s = " p-1 " -> "p-1"
      [] s = "  " -> ""
      [] OTHER -> s

\* int(s) of a string: [ok, val]
StrToInt(s) ==
    CASE s = "1" -> [ok |-> TRUE, val |-> 1]
      [] s = " 2 " -> [ok |-> TRUE, val |-> 2]
      [] s = "0" -> [ok |-> TRUE, val |-> 0]
      [] OTHER -> [ok |-> FALSE, val |-> 0]

\* float(s) of a string, in tenths: [ok, val]
StrToFloat(s) ==
    CASE s = "1" -> [ok |-> TRUE, val |-> 10]
      [] s = "2.5" -> [ok |-> TRUE, val |-> 25]
      [] s = " 2 " -> [ok |-> TRUE, val |-> 20]
      [] s = "0" -> [ok |-> TRUE, val |-> 0]
      [] OTHER -> [ok |-> FALSE, val |-> 0]

\* int(v): a number is truncated towards zero, a string is parsed,
\* None raises
PyInt(v) ==
    CASE v.t = "num" ->
            [ok |-> TRUE,
             val |-> IF v.n >= 0 THEN v.n \div 10 ELSE -((-v.n) \div 10)]
      [] v.t = "str" -> StrToInt(v.s)
      [] OTHER -> [ok |-> FALSE, val |-> 0]

\* float(v)
PyFloat(v) ==
    CASE v.t = "num" -> [ok |-> TRUE, val |-> v.n]
      [] v.t = "str" -> StrToFloat(v.s)
      [] OTHER -> [ok |-> FALSE, val |-> 0]

(***************************************************************************)
(* The file db.json and the document it holds.                             *)
(***************************************************************************)
EmptyDoc == [products |-> <<>>, orders |-> <<>>]

\* the file's content; pk and ok say what the "products" and "orders" keys
\* of a JSON object hold: a list, nothing (the key is missing), or a value
\* that is no list
FileAbsent ==
    [kind |-> "absent", pk |-> "missing", products |-> <<>>,
     ok |-> "missing", orders |-> <<>>]
FileBlank == [FileAbsent EXCEPT !.kind = "blank"]
FileCorrupt == [FileAbsent EXCEPT !.kind = "corrupt"]
\* a JSON text whose value is no object: [], null, 5, "x"
FileValue == [FileAbsent EXCEPT !.kind = "value"]

\* json.dumps(data, indent=2) of a loaded document
JsonDumps(data) ==
    [kind |-> "json", pk |-> "list", products |-> data.products,
     ok |-> "list", orders |-> data.orders]

\* DB_PATH.exists()
Exists(f) == f.kind # "absent"

\* DB_PATH.read_text().strip() == ""
IsBlank(f) == f.kind = "blank"

\* json.loads of the file's text, then load_db's defaults: [ok, data].
\* json.loads raises on a text that is no JSON; on a value that is no
\* object the tests and assignments of "products" raise TypeError
ParseDb(f) ==
    IF f.kind = "json"
    THEN [ok |-> TRUE,
          data |-> [products |-> IF f.pk = "list" THEN f.products ELSE <<>>,
                    orders |-> IF f.ok = "list" THEN f.orders ELSE <<>>]]
    ELSE [ok |-> FALSE, data |-> EmptyDoc]

(***************************************************************************)
(* index_by_id: the id -> record mapping, as id -> position of the record  *)
(* the mapping aliases (the last record of that id).                       *)
(***************************************************************************)
IdsOf(items) == {items[i].id : i \in DOMAIN items}

LastIdx(items, id) ==
    CHOOSE i \in DOMAIN items :
        /\ items[i].id = id
        /\ \A j \in DOMAIN items : items[j].id = id => j <= i

FirstIdx(items, id) ==
    CHOOSE i \in DOMAIN items :
        /\ items[i].id = id
        /\ \A j \in DOMAIN items : items[j].id = id => i <= j

index_by_id(items) == [k \in IdsOf(items) |-> LastIdx(items, k)]

(***************************************************************************)
(* Responses and the outcome of a handler's body: the document in memory   *)
(* when the handler leaves, whether save_db was called, and the response.  *)
(***************************************************************************)
NoResp == [code |-> 0, kind |-> "none", body |-> ""]
Json(code, kind, body) == [code |-> code, kind |-> kind, body |-> body]
bad_request(msg) == Json(400, "error", msg)
not_found(msg) == Json(404, "error", msg)
\* an exception load_db lets through (JSONDecodeError, TypeError): Flask answers 500
ServerError == Json(500, "error", "Internal Server Error")

Saved(data, r) == [save |-> TRUE, data |-> data, resp |-> r]
\* a return that saves what the handler holds in memory
NotSaved_Flush(data, r) == [save |-> TRUE, data |-> data, resp |-> r]
NotSaved(data, r) == [save |-> FALSE, data |-> data, resp |-> r]

(***************************************************************************)
(* Products: what each handler does with the loaded document `data` and    *)
(* the request r = [op, key, id, name, price, customer, status, items,     *)
(* now, gen].  r.key is the id in the path, r.now what now_iso() returns   *)
(* and r.gen the id uuid4 makes for this request.                          *)
(***************************************************************************)
\* create_product, before the lock: "" when the body passes
create_product_check(r) ==
    IF ~Truthy(BodyGet(r.name)) THEN "Field 'name' is required"
    ELSE IF BodyGet(r.price).t = "null" THEN "Field 'price' is required"
    ELSE IF ~PyFloat(r.price).ok THEN "Field 'price' must be a number"
    ELSE ""

\* str(body.get("id") or generated)
NewId(r) == IF Truthy(BodyGet(r.id)) THEN PyStr(r.id) ELSE r.gen

\* a create_product that does not look the id up
create_product_NoLookup(data, r) ==
    LET product == [id |-> NewId(r), name |-> PyStr(r.name),
                    price |-> PyFloat(r.price).val, createdAt |-> r.now]
    IN  Saved([data EXCEPT !.products = Append(@, product)],
              Json(201, "product", product))

\* a create_product that replaces the record of the id
create_product_Replace(data, r) ==
    LET pid == NewId(r)
        product == [id |-> pid, name |-> PyStr(r.name),
                    price |-> PyFloat(r.price).val, createdAt |-> r.now]
        others == SelectSeq(data.products, LAMBDA p : p.id # pid)
    IN  Saved([data EXCEPT !.products = Append(others, product)],
              Json(201, "product", product))

\* create_product, under the lock
create_product(data, r) ==
    LET p_index == index_by_id(data.products)
        pid == NewId(r)
        product == [id |-> pid, name |-> PyStr(r.name),
                    price |-> PyFloat(r.price).val, createdAt |-> r.now]
    IN  IF pid \in DOMAIN p_index
        THEN NotSaved(data, bad_request("Product id already exists"))
        ELSE Saved([data EXCEPT !.products = Append(@, product)],
                   Json(201, "product", product))

\* a write back that moves the record to the end of its collection
WriteBack_Move(items, id) ==
    Append(SelectSeq(items, LAMBDA x : x.id # id), items[LastIdx(items, id)])

\* the write back of update_product and update_order: the first record of
\* the id is replaced by the record the index aliases
WriteBack(items, id) ==
    [items EXCEPT ![FirstIdx(items, id)] = items[LastIdx(items, id)]]

\* update_product, under the lock
update_product(data, r) ==
    LET products == data.products
        pid == r.key
    IN  IF pid \notin DOMAIN index_by_id(products)
        THEN NotSaved(data, not_found("product not found"))
        ELSE
          LET at == index_by_id(products)[pid]
              named == IF r.name.t # "absent"
                       THEN [products EXCEPT ![at].name = PyStr(r.name)]
                       ELSE products
              priced == IF r.price.t # "absent" /\ PyFloat(r.price).ok
                        THEN [named EXCEPT ![at].price = PyFloat(r.price).val]
                        ELSE named
              after == WriteBack(priced, pid)
          IN  IF r.price.t # "absent" /\ ~PyFloat(r.price).ok
              THEN NotSaved([data EXCEPT !.products = named],
                            bad_request("Field 'price' must be a number"))
              ELSE Saved([data EXCEPT !.products = after],
                         Json(200, "product", after[at]))

\* a cascade that leaves the items alone
PruneItems_Keep(o, pid) == o

\* a cascade that empties the order
PruneItems_All(o, pid) == [o EXCEPT !.items = <<>>]

\* delete_product's cascade over one order
PruneItems(o, pid) ==
    [o EXCEPT !.items = SelectSeq(@, LAMBDA it : it.productId # pid)]

\* delete_product, under the lock
delete_product(data, r) ==
    LET pid == r.key
        products == SelectSeq(data.products, LAMBDA p : p.id # pid)
        orders == [i \in DOMAIN data.orders |-> PruneItems(data.orders[i], pid)]
    IN  IF Len(products) = Len(data.products)
        THEN NotSaved(data, not_found("product not found"))
        ELSE Saved([products |-> products, orders |-> orders],
                   Json(200, "deleted", pid))

\* list_products, get_product: the response for a loaded document
list_products(data) == Json(200, "products", data.products)

\* a get_product that answers with the first product of the store
get_product_First(data, r) ==
    IF Len(data.products) = 0
    THEN not_found("product not found")
    ELSE Json(200, "product", data.products[1])

get_product(data, r) ==
    LET p_index == index_by_id(data.products)
    IN  IF r.key \notin DOMAIN p_index
        THEN not_found("product not found")
        ELSE Json(200, "product", data.products[p_index[r.key]])

(***************************************************************************)
(* Orders.  The "items" of a body is [t, l]: t = "list" with the items l,  *)
(* "absent", or "other" (a value that is no list).  An item is             *)
(* [obj, productId, qty]: obj says whether it is a JSON object.            *)
(***************************************************************************)
NoItems == [t |-> "absent", l |-> <<>>]
NotAList == [t |-> "other", l |-> <<>>]
ItemList(l) == [t |-> "list", l |-> l]
Item(productId, qty) == [obj |-> TRUE, productId |-> productId, qty |-> qty]
NotAnObject == [obj |-> FALSE, productId |-> JAbsent, qty |-> JAbsent]

\* str(it.get("productId", "")).strip()
ItemProductId(it) ==
    Strip(PyStr(IF it.productId.t = "absent" THEN JStr("") ELSE it.productId))

\* checks of an item that do not look the product up
ItemError_AnyProduct(it, products_index) ==
    IF ~it.obj THEN "Each item must be an object with productId and qty"
    ELSE IF ItemProductId(it) = "" THEN "Each item must include productId"
    ELSE IF ~PyInt(it.qty).ok THEN "qty must be an integer"
    ELSE IF PyInt(it.qty).val <= 0 THEN "qty must be a positive integer"
    ELSE ""

\* the checks of one item in the validation loop: "" when the item passes
ItemError(it, products_index) ==
    IF ~it.obj THEN "Each item must be an object with productId and qty"
    ELSE IF ItemProductId(it) = "" THEN "Each item must include productId"
    ELSE IF ItemProductId(it) \notin DOMAIN products_index
         THEN "productId does not exist"
    ELSE IF ~PyInt(it.qty).ok THEN "qty must be an integer"
    ELSE IF PyInt(it.qty).val <= 0 THEN "qty must be a positive integer"
    ELSE ""

\* the validation loop of create_order and update_order: the error of the
\* first item that fails, or the normalized items
ValidateItems(l, products_index) ==
    LET bad == {i \in DOMAIN l : ItemError(l[i], products_index) # ""}
        first == CHOOSE i \in bad : \A j \in bad : i <= j
    IN  IF bad # {}
        THEN [ok |-> FALSE, msg |-> ItemError(l[first], products_index),
              items |-> <<>>]
        ELSE [ok |-> TRUE, msg |-> "",
              items |-> [i \in DOMAIN l |->
                            [productId |-> ItemProductId(l[i]),
                             qty |-> PyInt(l[i].qty).val]]]

\* create_order, before the lock: "" when the body passes
create_order_check(r) ==
    IF ~Truthy(BodyGet(r.customer)) THEN "Field 'customer' is required"
    ELSE IF r.items.t # "list" \/ Len(r.items.l) = 0
         THEN "Field 'items' must be a non-empty list"
    ELSE ""

\* str(body.get("status", "NEW"))
NewStatus(r) == IF r.status.t = "absent" THEN "NEW" ELSE PyStr(r.status)

\* create_order, under the lock
create_order(data, r) ==
    LET products_index == index_by_id(data.products)
        o_index == index_by_id(data.orders)
        checked == ValidateItems(r.items.l, products_index)
        oid == NewId(r)
        order == [id |-> oid, customer |-> PyStr(r.customer),
                  items |-> checked.items, status |-> NewStatus(r),
                  createdAt |-> r.now]
    IN  IF ~checked.ok THEN NotSaved(data, bad_request(checked.msg))
        ELSE IF oid \in DOMAIN o_index
             THEN NotSaved(data, bad_request("Order id already exists"))
        ELSE Saved([data EXCEPT !.orders = Append(@, order)],
                   Json(201, "order", order))

\* update_order, under the lock
update_order(data, r) ==
    LET orders == data.orders
        oid == r.key
    IN  IF oid \notin DOMAIN index_by_id(orders)
        THEN NotSaved(data, not_found("order not found"))
        ELSE
          LET at == index_by_id(orders)[oid]
              stated == IF r.status.t # "absent"
                        THEN [orders EXCEPT ![at].status = PyStr(r.status)]
                        ELSE orders
              named == IF r.customer.t # "absent"
                       THEN [stated EXCEPT ![at].customer = PyStr(r.customer)]
                       ELSE stated
              checked == ValidateItems(r.items.l, index_by_id(data.products))
              itemed == IF r.items.t # "absent"
                        THEN [named EXCEPT ![at].items = checked.items]
                        ELSE named
              after == WriteBack(itemed, oid)
          IN  IF r.items.t # "absent"
                 /\ (r.items.t # "list" \/ Len(r.items.l) = 0)
              THEN NotSaved([data EXCEPT !.orders = named],
                            bad_request("items must be a non-empty list"))
              ELSE IF r.items.t # "absent" /\ ~checked.ok
                   THEN NotSaved([data EXCEPT !.orders = named],
                                 bad_request(checked.msg))
              ELSE Saved([data EXCEPT !.orders = after],
                         Json(200, "order", after[at]))

\* a delete_order that answers 200 for an id the store does not hold
delete_order_Idempotent(data, r) ==
    Saved([data EXCEPT !.orders = SelectSeq(@, LAMBDA o : o.id # r.key)],
          Json(200, "deleted", r.key))

\* delete_order, under the lock
delete_order(data, r) ==
    LET orders == SelectSeq(data.orders, LAMBDA o : o.id # r.key)
    IN  IF Len(orders) = Len(data.orders)
        THEN NotSaved(data, not_found("order not found"))
        ELSE Saved([data EXCEPT !.orders = orders],
                   Json(200, "deleted", r.key))

\* list_orders, get_order: the response for a loaded document
list_orders(data) == Json(200, "orders", data.orders)

get_order(data, r) ==
    LET o_index == index_by_id(data.orders)
    IN  IF r.key \notin DOMAIN o_index
        THEN not_found("order not found")
        ELSE Json(200, "order", data.orders[o_index[r.key]])

(***************************************************************************)
(* The request threads.  pc[t] is the place of thread t in its handler:    *)
(*   idle     no request (resp[t] is the last response)                    *)
(*   acquire  at "with _lock"                                              *)
(*   exists   ensure_db_exists, at DB_PATH.exists()                        *)
(*   eread    ensure_db_exists, at DB_PATH.read_text()                     *)
(*   eopen    ensure_db_exists, write_text about to open the file          *)
(*   ewrite   ensure_db_exists, write_text about to write the text         *)
(*   load     load_db, at DB_PATH.read_text()                              *)
(*   save     save_db, write_text about to open the file                   *)
(*   flush    save_db, write_text about to write the text                  *)
(*   exit     leaving the "with _lock" block                               *)
(***************************************************************************)
WriteOps ==
    {"create_product", "update_product", "delete_product",
     "create_order", "update_order", "delete_order"}
ReadOps == {"list_products", "get_product", "list_orders", "get_order"}

NoReq ==
    [op |-> "none", key |-> "", id |-> JAbsent, name |-> JAbsent,
     price |-> JAbsent, customer |-> JAbsent, status |-> JAbsent,
     items |-> NoItems, now |-> "", gen |-> ""]

\* the checks a handler makes before it touches the lock or the file
PreCheck(r) ==
    CASE r.op = "create_product" -> create_product_check(r)
      [] r.op = "create_order" -> create_order_check(r)
      [] OTHER -> ""

\* the body of a write handler between load_db and save_db
Handle(data, r) ==
    CASE r.op = "create_product" -> create_product(data, r)
      [] r.op = "update_product" -> update_product(data, r)
      [] r.op = "delete_product" -> delete_product(data, r)
      [] r.op = "create_order" -> create_order(data, r)
      [] r.op = "update_order" -> update_order(data, r)
      [] r.op = "delete_order" -> delete_order(data, r)

\* the response of a read handler for the document it loaded
Answer(data, r) ==
    CASE r.op = "list_products" -> list_products(data)
      [] r.op = "get_product" -> get_product(data, r)
      [] r.op = "list_orders" -> list_orders(data)
      [] r.op = "get_order" -> get_order(data, r)

\* what the file holds after `text` is written at offset 0 through a
\* descriptor opened before: over an empty file the text; over a text that
\* is not longer, the text; over a longer one, the text followed by the
\* rest of the longer one, which is no JSON document
TextLen(f) ==
    IF f.kind = "json"
    THEN 1 + Len(f.products) + Len(f.orders)
    ELSE 0

WriteAt0(cur, text) ==
    IF cur.kind \in {"absent", "blank"} \/ cur = text THEN text
    ELSE IF cur.kind = "json" /\ TextLen(cur) <= TextLen(text) THEN text
    ELSE FileCorrupt

\* a "with _lock" that does not wait for the lock
CanAcquire_NoWait(t) == TRUE

\* "with _lock": the lock is taken when it is free
CanAcquire(t) == lock = NoThread

\* a lock released by hand on the paths that saved only
Released_OnSuccess(t) ==
    IF lock = t /\ resp[t].code \in {200, 201} THEN NoThread ELSE lock

\* leaving "with _lock", by return or by exception, releases the lock
Released(t) == IF lock = t THEN NoThread ELSE lock

\* a request arrives at thread t
Start(t, r, max) ==
    /\ pc[t] = "idle"
    /\ nreq < max
    /\ nreq' = nreq + 1
    /\ req' = [req EXCEPT ![t] = r]
    /\ buf' = [buf EXCEPT ![t] = EmptyDoc]
    /\ IF PreCheck(r) # ""
       THEN /\ pc' = pc
            /\ resp' = [resp EXCEPT ![t] = bad_request(PreCheck(r))]
       ELSE /\ pc' = [pc EXCEPT ![t] =
                        IF r.op \in WriteOps THEN "acquire" ELSE "exists"]
            /\ resp' = [resp EXCEPT ![t] = NoResp]
    /\ UNCHANGED <<file, lock>>

Acquire(t) ==
    /\ pc[t] = "acquire"
    /\ CanAcquire(t)
    /\ lock' = t
    /\ pc' = [pc EXCEPT ![t] = "exists"]
    /\ UNCHANGED <<file, req, buf, resp, nreq>>

\* ensure_db_exists: if not DB_PATH.exists()
EnsureExists(t) ==
    /\ pc[t] = "exists"
    /\ pc' = [pc EXCEPT ![t] = IF Exists(file) THEN "eread" ELSE "eopen"]
    /\ UNCHANGED <<file, lock, req, buf, resp, nreq>>

\* ensure_db_exists: content = DB_PATH.read_text().strip()
EnsureRead(t) ==
    /\ pc[t] = "eread"
    /\ pc' = [pc EXCEPT ![t] = IF IsBlank(file) THEN "eopen" ELSE "load"]
    /\ UNCHANGED <<file, lock, req, buf, resp, nreq>>

\* ensure_db_exists: write_text opens the file, which empties it
EnsureOpen(t) ==
    /\ pc[t] = "eopen"
    /\ file' = FileBlank
    /\ pc' = [pc EXCEPT ![t] = "ewrite"]
    /\ UNCHANGED <<lock, req, buf, resp, nreq>>

\* ensure_db_exists: write_text writes the empty document
EnsureWrite(t) ==
    /\ pc[t] = "ewrite"
    /\ file' = WriteAt0(file, JsonDumps(EmptyDoc))
    /\ pc' = [pc EXCEPT ![t] = "load"]
    /\ UNCHANGED <<lock, req, buf, resp, nreq>>

\* load_db's read and parse, and the handler's work on the document up to
\* its save_db or its return
Load(t) ==
    /\ pc[t] = "load"
    /\ LET parsed == ParseDb(file)
           r == req[t]
       IN  IF r.op \in ReadOps
           THEN /\ pc' = [pc EXCEPT ![t] = "idle"]
                /\ resp' = [resp EXCEPT ![t] =
                              IF parsed.ok THEN Answer(parsed.data, r)
                              ELSE ServerError]
                /\ buf' = buf
           ELSE IF ~parsed.ok
           THEN /\ pc' = [pc EXCEPT ![t] = "exit"]
                /\ resp' = [resp EXCEPT ![t] = ServerError]
                /\ buf' = buf
           ELSE LET out == Handle(parsed.data, r)
                IN  /\ pc' = [pc EXCEPT ![t] =
                                IF out.save THEN "save" ELSE "exit"]
                    /\ resp' = [resp EXCEPT ![t] = out.resp]
                    /\ buf' = [buf EXCEPT ![t] = out.data]
    /\ UNCHANGED <<file, lock, req, nreq>>

\* save_db: write_text opens the file, which empties it
SaveOpen(t) ==
    /\ pc[t] = "save"
    /\ file' = FileBlank
    /\ pc' = [pc EXCEPT ![t] = "flush"]
    /\ UNCHANGED <<lock, req, buf, resp, nreq>>

\* save_db: write_text writes json.dumps(data)
SaveWrite(t) ==
    /\ pc[t] = "flush"
    /\ file' = WriteAt0(file, JsonDumps(buf[t]))
    /\ pc' = [pc EXCEPT ![t] = "exit"]
    /\ UNCHANGED <<lock, req, buf, resp, nreq>>

\* the end of the "with _lock" block: the lock is released and the
\* response is returned
Release(t) ==
    /\ pc[t] = "exit"
    /\ lock' = Released(t)
    /\ pc' = [pc EXCEPT ![t] = "idle"]
    /\ UNCHANGED <<file, req, buf, resp, nreq>>

(***************************************************************************)
(* The requests of Spec: concurrent threads, a store that starts empty.    *)
(***************************************************************************)
Request(op, key) == [NoReq EXCEPT !.op = op, !.key = key, !.now = "t1"]

ProductBody(id, gen, name, price) ==
    [Request("create_product", "") EXCEPT
        !.id = id, !.gen = gen, !.name = name, !.price = price]

OrderBody(id, gen, customer, items) ==
    [Request("create_order", "") EXCEPT
        !.id = id, !.gen = gen, !.customer = customer, !.items = items]

Requests ==
    {ProductBody(JAbsent, "p-1", JStr("a"), JNum(10)),
     ProductBody(JStr("p-1"), "", JStr("a"), JNum(10)),
     ProductBody(JAbsent, "p-2", JStr("b"), JStr("2.5")),
     [Request("update_product", "p-1") EXCEPT !.name = JStr("b")],
     Request("delete_product", "p-1"),
     OrderBody(JAbsent, "o-1", JStr("c"),
               ItemList(<<Item(JStr("p-1"), JNum(10))>>)),
     OrderBody(JStr("o-1"), "", JStr("c"),
               ItemList(<<Item(JStr("p-2"), JNum(20)),
                          Item(JStr("p-1"), JNum(10))>>)),
     [Request("update_order", "o-1") EXCEPT !.status = JStr("PAID")],
     [Request("update_order", "o-1") EXCEPT
        !.items = ItemList(<<Item(JStr("p-2"), JNum(10))>>)],
     Request("delete_order", "o-1"),
     Request("list_products", ""),
     Request("get_product", "p-1"),
     Request("list_orders", ""),
     Request("get_order", "o-1")}

EmptyStores == {FileAbsent, FileBlank, JsonDumps(EmptyDoc)}

Init ==
    /\ file \in EmptyStores
    /\ lock = NoThread
    /\ pc = [t \in Threads |-> "idle"]
    /\ req = [t \in Threads |-> NoReq]
    /\ buf = [t \in Threads |-> EmptyDoc]
    /\ resp = [t \in Threads |-> NoResp]
    /\ nreq = 0

Next ==
    \E t \in Threads :
        \/ \E r \in Requests : Start(t, r, MaxReq)
        \/ Acquire(t)
        \/ EnsureExists(t)
        \/ EnsureRead(t)
        \/ EnsureOpen(t)
        \/ EnsureWrite(t)
        \/ Load(t)
        \/ SaveOpen(t)
        \/ SaveWrite(t)
        \/ Release(t)

Spec == Init /\ [][Next]_vars

\* a handler that has started runs on: its thread is scheduled as long as
\* it can take a step
Run(t) ==
    \/ Acquire(t)
    \/ EnsureExists(t)
    \/ EnsureRead(t)
    \/ EnsureOpen(t)
    \/ EnsureWrite(t)
    \/ Load(t)
    \/ SaveOpen(t)
    \/ SaveWrite(t)
    \/ Release(t)

\* SpecFair: the requests that take each way out of the "with _lock"
\* block (a save, BadRequest, NotFound, the parse failure a concurrent GET
\* brings about), under fair scheduling of the threads
FairRequests ==
    {ProductBody(JStr("p-1"), "", JStr("a"), JNum(10)),
     Request("delete_product", "p-1"),
     Request("list_products", "")}

NextFair ==
    \E t \in Threads :
        \/ \E r \in FairRequests : Start(t, r, MaxReq)
        \/ Run(t)

SpecFair == Init /\ [][NextFair]_vars /\ \A t \in Threads : WF_vars(Run(t))

(***************************************************************************)
(* SpecSeq: one request, served by one thread, on each store of a family   *)
(* of stores the service can have written, and on the absent, the empty    *)
(* and the malformed file.  The bodies cover every check of the handlers.  *)
(***************************************************************************)
P1 == [id |-> "p-1", name |-> "a", price |-> 10, createdAt |-> "t0"]
P2 == [id |-> "p-2", name |-> "b", price |-> 25, createdAt |-> "t0"]
SeqProducts == {<<>>, <<P1>>, <<P1, P2>>, <<P2, P1>>}

I1 == [productId |-> "p-1", qty |-> 1]
I2 == [productId |-> "p-2", qty |-> 2]
I3 == [productId |-> "p-1", qty |-> 3]
SeqItems == {<<>>, <<I1>>, <<I1, I2>>, <<I2, I3>>}

StoredOrder(id, items) ==
    [id |-> id, customer |-> "c", items |-> items, status |-> "NEW",
     createdAt |-> "t0"]
SeqOrders ==
    {<<>>} \cup {<<StoredOrder("o-1", a)>> : a \in SeqItems}
           \cup {<<StoredOrder("o-1", a), StoredOrder("o-2", b)>> :
                    a \in SeqItems, b \in SeqItems}

\* the product ids the items of `orders` name
ItemIds(orders) ==
    UNION {{orders[i].items[j].productId : j \in DOMAIN orders[i].items} :
              i \in DOMAIN orders}

\* documents create, update and delete requests lead to
SeqDocs ==
    {d \in [products : SeqProducts, orders : SeqOrders] :
        ItemIds(d.orders) \subseteq IdsOf(d.products)}

\* JSON objects without a "products" or an "orders" list
SeqPartial ==
    {[JsonDumps([products |-> <<P1>>, orders |-> <<>>]) EXCEPT
        !.ok = k, !.orders = <<>>] : k \in {"missing", "other"}}
    \cup {[JsonDumps([products |-> <<>>, orders |-> <<StoredOrder("o-1", <<>>)>>])
             EXCEPT !.pk = k, !.products = <<>>] : k \in {"missing", "other"}}
    \cup {[JsonDumps(EmptyDoc) EXCEPT !.pk = "missing", !.ok = "missing"]}

SeqFiles ==
    {JsonDumps(d) : d \in SeqDocs} \cup SeqPartial
    \cup {FileAbsent, FileBlank, FileCorrupt, FileValue}

\* the items of the bodies: items that pass (with a padded productId, a
\* qty given as a string, a qty with a fraction) and one item per check
GoodItems ==
    {Item(JStr(" p-1 "), JStr(" 2 ")),
     Item(JStr("p-2"), JNum(10)),
     Item(JStr("p-1"), JNum(25))}

BadItems ==
    {NotAnObject,
     Item(JStr("  "), JNum(10)),
     Item(JStr("ghost"), JNum(10)),
     Item(JStr("p-1"), JNum(0)),
     Item(JStr("p-1"), JStr("x"))}

RawItems == GoodItems \cup BadItems

\* lists of one item, and of two with a passing item in one place at least
RawItemLists ==
    {ItemList(<<a>>) : a \in RawItems}
    \cup {ItemList(<<a, b>>) : a \in GoodItems, b \in RawItems}
    \cup {ItemList(<<a, b>>) : a \in RawItems, b \in GoodItems}

OneItem == ItemList(<<Item(JStr("p-1"), JNum(10))>>)

SeqRequests ==
    {ProductBody(id, "p-2", name, price) :
        id \in {JAbsent, JStr("p-1")},
        name \in {JAbsent, JStr(""), JStr("a")},
        price \in {JAbsent, JStr("abc"), JStr("2.5"), JNum(10)}}
    \cup {[Request("update_product", key) EXCEPT !.name = name, !.price = price] :
        key \in {"p-1", "p-2", "ghost"},
        name \in {JAbsent, JStr(""), JStr("z")},
        price \in {JAbsent, JNull, JStr("abc"), JNum(20)}}
    \cup {ProductBody(JStr("o-1"), "", JStr("a"), JNum(10)),
           OrderBody(JStr("p-1"), "", JStr("d"), OneItem)}
    \cup {Request("delete_product", key) : key \in {"p-1", "p-2", "ghost"}}
    \cup {OrderBody(JAbsent, "o-2", JStr("d"), items) : items \in RawItemLists}
    \cup {[OrderBody(JStr("o-1"), "", JStr("d"), items) EXCEPT
              !.status = JStr("PAID")] : items \in RawItemLists}
    \cup {OrderBody(JAbsent, "o-2", customer, items) :
        customer \in {JAbsent, JStr("d")},
        items \in {NoItems, NotAList, ItemList(<<>>), OneItem}}
    \cup {[Request("update_order", "o-1") EXCEPT !.items = items] :
        items \in RawItemLists \cup {NoItems, NotAList, ItemList(<<>>)}}
    \cup {[Request("update_order", "o-1") EXCEPT
              !.status = JStr("PAID"), !.customer = JStr("d"),
              !.items = items] :
        items \in RawItemLists \cup {NoItems, NotAList, ItemList(<<>>)}}
    \cup {[Request("update_order", "o-2") EXCEPT
              !.status = status, !.customer = customer, !.items = items] :
        status \in {JAbsent, JStr("PAID")},
        customer \in {JAbsent, JStr("d")},
        items \in {NoItems, OneItem,
                   ItemList(<<Item(JStr("ghost"), JNum(10))>>)}}
    \cup {[Request("update_order", "ghost") EXCEPT !.status = JStr("PAID")]}
    \cup {Request("delete_order", key) : key \in {"o-1", "o-2", "ghost"}}
    \cup {Request(op, "") : op \in {"list_products", "list_orders"}}
    \cup {Request("get_product", key) : key \in {"p-1", "ghost"}}
    \cup {Request("get_order", key) : key \in {"o-1", "ghost"}}

InitSeq ==
    /\ file \in SeqFiles
    /\ lock = NoThread
    /\ pc = [t \in Threads |-> "idle"]
    /\ req = [t \in Threads |-> NoReq]
    /\ buf = [t \in Threads |-> EmptyDoc]
    /\ resp = [t \in Threads |-> NoResp]
    /\ nreq = 0

NextSeq ==
    \/ \E r \in SeqRequests : Start(SeqThread, r, 1)
    \/ Acquire(SeqThread)
    \/ EnsureExists(SeqThread)
    \/ EnsureRead(SeqThread)
    \/ EnsureOpen(SeqThread)
    \/ EnsureWrite(SeqThread)
    \/ Load(SeqThread)
    \/ SaveOpen(SeqThread)
    \/ SaveWrite(SeqThread)
    \/ Release(SeqThread)

SpecSeq == InitSeq /\ [][NextSeq]_vars

(***************************************************************************)
(* The claims.                                                             *)
(***************************************************************************)
Idle(t) == pc[t] = "idle"

\* thread t is in the write cycle of a write request: past "with _lock"
\* and not yet out of the block
InWriteCycle(t) ==
    /\ req[t].op \in WriteOps
    /\ pc[t] \in {"exists", "eread", "eopen", "ewrite", "load", "save",
                  "flush", "exit"}

\* C1: write cycles are mutually exclusive: at most one write request is
\* between its "with _lock" (before its load) and the end of the block
\* (after its save), in every reachable state.
C1_MutualExclusion ==
    \A t, u \in Threads : InWriteCycle(t) /\ InWriteCycle(u) => t = u

\* a writer is between the two steps of its save while another waits
C1_Witness ==
    \E t, u \in Threads :
        /\ t # u
        /\ InWriteCycle(t) /\ pc[t] = "flush"
        /\ req[u].op \in WriteOps /\ pc[u] = "acquire"

\* the record a create request answered with is in the list `l`
Listed(l, r) == r.kind \in {"product", "order"} /\ \E i \in DOMAIN l : l[i] = r.body

\* the two threads have served two create-product requests of different
\* ids, the only requests so far, on the store that started empty
TwoCreates(t, u) ==
    /\ t # u
    /\ nreq = 2
    /\ Idle(t) /\ Idle(u)
    /\ req[t].op = "create_product" /\ req[u].op = "create_product"
    /\ NewId(req[t]) # NewId(req[u])

\* C2: no lost update between concurrent creates: after two create-product
\* requests of different ids, in any interleaving, both have answered 201,
\* a list of the products holds both records, and the collection is 2
\* longer than the empty one they started on.
C2_NoLostUpdate ==
    \A t, u \in Threads :
        TwoCreates(t, u) =>
            /\ resp[t].code = 201 /\ resp[u].code = 201
            /\ ParseDb(file).ok
            /\ LET l == list_products(ParseDb(file).data)
               IN  /\ l.code = 200
                   /\ Len(l.body) = 2
                   /\ Listed(l.body, resp[t])
                   /\ Listed(l.body, resp[u])

C2_Witness ==
    \E t, u \in Threads :
        /\ TwoCreates(t, u)
        /\ Len(file.products) = 2
        /\ resp[t].code = 201 /\ resp[u].code = 201

\* no two records of the sequence share an id
UniqueIds(items) ==
    \A i, j \in DOMAIN items : items[i].id = items[j].id => i = j

\* C3: id uniqueness: from the empty store, after any interleaving of
\* requests, no two products of the file share an id and no two orders
\* share an id.
C3_UniqueIds == UniqueIds(file.products) /\ UniqueIds(file.orders)

\* a create of an id the collection holds was turned down
C3_Witness ==
    /\ Len(file.products) = 1
    /\ \E t \in Threads :
          /\ Idle(t) /\ req[t].op = "create_product"
          /\ resp[t] = bad_request("Product id already exists")

\* thread t has left load_db with a document and has run its handler on it
Handled(t) == pc[t] = "load" /\ pc'[t] # "load" /\ ParseDb(file).ok

\* the handler of thread t has ended with BadRequest and without a save
Refused(t) ==
    /\ resp'[t].code = 400
    /\ pc'[t] = "exit"
    /\ file' = file

\* C4: cascade on product delete: once a delete-product of id P has
\* succeeded, the file holds no product of id P and no order with an item
\* whose productId is P.
C4_Cascade ==
    \A t \in Threads :
        (/\ pc[t] \in {"exit", "idle"}
         /\ req[t].op = "delete_product"
         /\ resp[t].code = 200)
        => /\ file.kind = "json"
           /\ req[t].key \notin IdsOf(file.products)
           /\ req[t].key \notin ItemIds(file.orders)

\* a delete of p-1 has cut an order's items <<I1, I2>> down to <<I2>>
C4_Witness ==
    /\ Idle(SeqThread)
    /\ req[SeqThread] = Request("delete_product", "p-1")
    /\ resp[SeqThread].code = 200
    /\ \E i \in DOMAIN file.orders : file.orders[i].items = <<I2>>

\* the value is an integer greater than zero: a number without a fraction,
\* or a string that reads as one
IsPositiveInteger(v) ==
    \/ v.t = "num" /\ v.n % 10 = 0 /\ v.n > 0
    \/ v.t = "str" /\ StrToInt(v.s).ok /\ StrToInt(v.s).val > 0

\* the item is invalid by the rules of the specification
InvalidItem(it, products) ==
    \/ ~it.obj
    \/ ItemProductId(it) = ""
    \/ ItemProductId(it) \notin IdsOf(products)
    \/ ~IsPositiveInteger(it.qty)

\* the request is a create-order, or an update-order of an order of the
\* store, whose item list holds an invalid item
InvalidItems(r, data) ==
    /\ r.op \in {"create_order", "update_order"}
    /\ r.op = "update_order" => r.key \in IdsOf(data.orders)
    /\ r.items.t = "list"
    /\ \E i \in DOMAIN r.items.l : InvalidItem(r.items.l[i], data.products)

\* C5: order item lists are accepted all-or-nothing: a create-order or
\* update-order with an invalid item at any place of its list (no object,
\* empty productId, unknown productId, qty no integer greater than zero)
\* ends with BadRequest and without a save, the file unchanged.
C5_AllOrNothing ==
    [][\A t \in Threads :
          Handled(t) /\ InvalidItems(req[t], ParseDb(file).data)
          => Refused(t)]_vars

\* C6: a duplicate id is rejected, not overwritten: a create-product
\* (create-order) of an id its collection holds ends with BadRequest and
\* without a save, the file unchanged; an id the other collection holds
\* is accepted.
C6_DuplicateRejected ==
    [][\A t \in Threads :
          LET data == ParseDb(file).data
              id == NewId(req[t])
          IN  /\ (/\ Handled(t)
                  /\ req[t].op = "create_product"
                  /\ id \in IdsOf(data.products))
                 => Refused(t)
              /\ (/\ Handled(t)
                  /\ req[t].op = "create_order"
                  /\ id \in IdsOf(data.orders))
                 => Refused(t)
              /\ (/\ Handled(t)
                  /\ req[t].op = "create_product"
                  /\ id \notin IdsOf(data.products))
                 => /\ resp'[t].code = 201
                    /\ buf'[t].products = Append(data.products, resp'[t].body)
              /\ (/\ Handled(t)
                  /\ req[t].op = "create_order"
                  /\ id \notin IdsOf(data.orders)
                  /\ ValidateItems(req[t].items.l, index_by_id(data.products)).ok)
                 => /\ resp'[t].code = 201
                    /\ buf'[t].orders = Append(data.orders, resp'[t].body)]_vars

\* a create-product of id "p-1" was turned down on a store that holds the
\* product, with other name and price, and holds it still
C6_Witness ==
    /\ Idle(SeqThread)
    /\ req[SeqThread] = ProductBody(JStr("p-1"), "p-2", JStr("a"), JStr("2.5"))
    /\ resp[SeqThread] = bad_request("Product id already exists")
    /\ file.products = <<P2, P1>>

\* C7: the lock is released on every exit path of a write request: a
\* thread that is not in a "with _lock" block does not hold the lock; a
\* handler that ends with BadRequest, NotFound or the parse failure of the
\* file leaves the block without a save; the lock is free when the block is
\* left; and a thread that waits for the lock gets it.
C7_LockReleased ==
    /\ [](\A t \in Threads : pc[t] \in {"idle", "acquire"} => lock # t)
    /\ [][\A t \in Threads :
            /\ (/\ pc[t] = "load" /\ pc'[t] # "load"
                /\ req[t].op \in WriteOps
                /\ resp'[t].code \notin {200, 201})
               => pc'[t] = "exit" /\ file' = file
            /\ (pc[t] = "exit" /\ pc'[t] = "idle") => lock' = NoThread]_vars
    /\ \A t \in Threads : (pc[t] = "acquire") ~> (lock = t)

\* a write request has ended on the parse failure of the file (a GET had
\* emptied it) and the lock is free
C7_Witness ==
    \E t \in Threads :
        /\ Idle(t)
        /\ req[t].op \in WriteOps
        /\ resp[t] = ServerError
        /\ lock = NoThread

\* C8: only the exclusive region mutates the file: every step that changes
\* the file is a step of the thread that holds the lock.
C8_LockedWrites ==
    [][\A t \in Threads : pc'[t] # pc[t] /\ file' # file => lock = t]_vars

\* the document load_db makes of the file: the empty document for the
\* absent and the empty file
StoredDoc(f) ==
    IF f.kind \in {"absent", "blank"}
    THEN [ok |-> TRUE, data |-> EmptyDoc]
    ELSE ParseDb(f)

\* C9: GET requests are read-only: no step of a list or a get changes the
\* document the file holds.
C9_ReadOnly ==
    [][\A t \in Threads :
          req[t].op \in ReadOps /\ pc[t] # "idle" /\ pc'[t] # pc[t]
          => StoredDoc(file') = StoredDoc(file)]_vars

\* the document before the create request whose save thread u is in
SavedOver(u) ==
    IF req[u].op = "create_product"
    THEN [buf[u] EXCEPT !.products = SubSeq(@, 1, Len(@) - 1)]
    ELSE [buf[u] EXCEPT !.orders = SubSeq(@, 1, Len(@) - 1)]

SameResponse(a, b) == a.code = b.code /\ a.kind = b.kind /\ a.body = b.body

\* C10: reads are never torn: a list or get that ends while a create
\* request is in its save answers from the document before that write or
\* from the document after it.
C10_NoTornRead ==
    [][\A t, u \in Threads :
          (/\ req[t].op \in ReadOps
           /\ pc[t] = "load" /\ pc'[t] = "idle"
           /\ req[u].op \in {"create_product", "create_order"}
           /\ pc[u] \in {"save", "flush"})
          => \/ SameResponse(resp'[t], Answer(SavedOver(u), req[t]))
             \/ SameResponse(resp'[t], Answer(buf[u], req[t]))]_vars

\* the field of an update-product body is supplied and fails the rule
\* create_product has for it
BadName(r) == r.name.t # "absent" /\ ~Truthy(r.name)
BadPrice(r) == r.price.t # "absent" /\ (r.price.t = "null" \/ ~PyFloat(r.price).ok)

\* C11: update-product checks the fields it is given by the rules of
\* create: an update of a product of the store with a name that is empty
\* or a price that does not parse ends with BadRequest and without a save,
\* the file unchanged.
C11_UpdateRevalidates ==
    [][\A t \in Threads :
          (/\ Handled(t)
           /\ req[t].op = "update_product"
           /\ req[t].key \in IdsOf(ParseDb(file).data.products)
           /\ (BadName(req[t]) \/ BadPrice(req[t])))
          => Refused(t)]_vars

UpdateOps == {"update_product", "update_order"}

\* C12: a rejected update leaves no trace: an update-product or
\* update-order that ends with BadRequest goes to the end of the block
\* without a save and the file keeps its content up to the response, also
\* when the handler has set a status, customer or name in its document.
C12_RejectedUpdate ==
    [][\A t \in Threads :
          /\ (/\ Handled(t)
              /\ req[t].op \in UpdateOps
              /\ resp'[t].code = 400)
             => (pc'[t] = "exit" /\ file' = file)
          /\ (/\ pc[t] = "exit"
              /\ req[t].op \in UpdateOps
              /\ resp[t].code = 400)
             => file' = file]_vars

\* an update-order with status "PAID", customer "d" and an item of an
\* unknown product was answered 400: the handler's document has the new
\* status and customer, the file has the old ones
C12_Witness ==
    /\ Idle(SeqThread)
    /\ req[SeqThread].op = "update_order"
    /\ req[SeqThread].key = "o-1"
    /\ resp[SeqThread].code = 400
    /\ file.kind = "json"
    /\ Len(file.orders) > 0
    /\ file.orders[1].status = "NEW"
    /\ file.orders[1].customer = "c"
    /\ Len(buf[SeqThread].orders) > 0
    /\ buf[SeqThread].orders[1].status = "PAID"
    /\ buf[SeqThread].orders[1].customer = "d"

\* `new` has the records of `old`, one for one and in place; the records
\* of another id than `id` are equal, the record of `id` has kept its id
\* and its createdAt
SameBut(old, new, id) ==
    /\ Len(new) = Len(old)
    /\ \A i \in DOMAIN old :
          IF old[i].id = id
          THEN new[i].id = id /\ new[i].createdAt = old[i].createdAt
          ELSE new[i] = old[i]

\* field f of the record of `id` is the same in `old` and `new`
KeepsField(old, new, id, f) ==
    \A i \in DOMAIN old : old[i].id = id => new[i][f] = old[i][f]

\* the items of the record of `id` in `new` are the items of the list l of
\* the request, one for one: none is left of the old list
ItemsReplaced(new, id, l) ==
    \A i \in DOMAIN new :
        new[i].id = id
        => /\ Len(new[i].items) = Len(l)
           /\ \A j \in DOMAIN l :
                 new[i].items[j].productId = ItemProductId(l[j])

\* C13: updates are partial and local: after a successful update-product
\* (update-order) the handler's document has the same number of records,
\* every other record of both collections as it was and in its place, and
\* the updated record in its place with its id, its createdAt and every
\* field the request does not supply as they were; supplied items stand
\* in place of the whole old list.
C13_PartialUpdate ==
    [][\A t \in Threads :
          LET data == ParseDb(file).data
              r == req[t]
              after == buf'[t]
          IN  /\ (/\ Handled(t)
                  /\ r.op = "update_product"
                  /\ resp'[t].code = 200)
                 => /\ after.orders = data.orders
                    /\ SameBut(data.products, after.products, r.key)
                    /\ r.name.t = "absent"
                       => KeepsField(data.products, after.products, r.key, "name")
                    /\ r.price.t = "absent"
                       => KeepsField(data.products, after.products, r.key, "price")
              /\ (/\ Handled(t)
                  /\ r.op = "update_order"
                  /\ resp'[t].code = 200)
                 => /\ after.products = data.products
                    /\ SameBut(data.orders, after.orders, r.key)
                    /\ r.status.t = "absent"
                       => KeepsField(data.orders, after.orders, r.key, "status")
                    /\ r.customer.t = "absent"
                       => KeepsField(data.orders, after.orders, r.key, "customer")
                    /\ r.items.t = "absent"
                       => KeepsField(data.orders, after.orders, r.key, "items")
                    /\ r.items.t # "absent"
                       => ItemsReplaced(after.orders, r.key, r.items.l)]_vars

\* an update-order of "o-1" with one item (p-1, qty 2) and nothing else
\* has succeeded on a store of two products and two orders: the order has
\* the one item, its status and customer, and "o-2" after it is untouched
C13_Witness ==
    /\ Idle(SeqThread)
    /\ req[SeqThread].op = "update_order"
    /\ req[SeqThread].status = JAbsent
    /\ resp[SeqThread].code = 200
    /\ file.kind = "json"
    /\ Len(file.products) = 2
    /\ Len(file.orders) = 2
    /\ file.orders[1] =
          [StoredOrder("o-1", <<>>) EXCEPT
              !.items = <<[productId |-> "p-1", qty |-> 2]>>]
    /\ file.orders[2] = StoredOrder("o-2", <<I2, I3>>)

\* the records of `items` but those of product `pid`, in their order
Without(items, pid) == SelectSeq(items, LAMBDA it : it.productId # pid)

\* C14: the cascade of delete-product removes exactly what references the
\* product: after a successful delete of product P the handler's document
\* has the products but P, in their order, and every order in its place
\* with its id, customer, status and createdAt and with its items but
\* those of P, in their order and with their qty; an order without items
\* stays.
C14_ExactCascade ==
    [][\A t \in Threads :
          LET data == ParseDb(file).data
              pid == req[t].key
              after == buf'[t]
          IN  (/\ Handled(t)
               /\ req[t].op = "delete_product"
               /\ resp'[t].code = 200)
              => /\ after.products =
                       SelectSeq(data.products, LAMBDA p : p.id # pid)
                 /\ Len(after.orders) = Len(data.orders)
                 /\ \A i \in DOMAIN data.orders :
                       after.orders[i] =
                          [data.orders[i] EXCEPT !.items = Without(@, pid)]]_vars

\* a delete of "p-1" is about to save: the file has both products, order
\* "o-1" with one item of p-1 and order "o-2" with an item of each; the
\* handler's document has p-2 alone, "o-1" without items and "o-2" with
\* the item of p-2
C14_Witness ==
    /\ pc[SeqThread] = "save"
    /\ req[SeqThread] = Request("delete_product", "p-1")
    /\ resp[SeqThread].code = 200
    /\ file.kind = "json"
    /\ file.products = <<P1, P2>>
    /\ file.orders = <<StoredOrder("o-1", <<I1>>), StoredOrder("o-2", <<I2, I3>>)>>
    /\ buf[SeqThread].products = <<P2>>
    /\ buf[SeqThread].orders =
          <<StoredOrder("o-1", <<>>), StoredOrder("o-2", <<I2>>)>>

\* the request is an update or a delete of an id its collection in `data`
\* does not hold
MissingId(r, data) ==
    \/ r.op \in {"update_product", "delete_product"}
       /\ r.key \notin IdsOf(data.products)
    \/ r.op \in {"update_order", "delete_order"}
       /\ r.key \notin IdsOf(data.orders)

\* C15: NotFound mutates nothing: an update or a delete of a product or an
\* order whose id is not in its collection ends with NotFound and without
\* a save, and the file keeps its content up to the response; the document
\* a delete-product holds at its return has every order item.
C15_NotFoundNoMutation ==
    [][\A t \in Threads :
          /\ (Handled(t) /\ MissingId(req[t], ParseDb(file).data))
             => /\ resp'[t].code = 404
                /\ pc'[t] = "exit"
                /\ file' = file
                /\ buf'[t] = ParseDb(file).data
          /\ (pc[t] = "exit" /\ resp[t].code = 404) => file' = file]_vars

\* a delete-product of an id the store does not hold is at its return with
\* NotFound: the file has its two products and its order with two items
C15_Witness ==
    /\ pc[SeqThread] = "exit"
    /\ req[SeqThread] = Request("delete_product", "ghost")
    /\ resp[SeqThread].code = 404
    /\ file.kind = "json"
    /\ file.products = <<P1, P2>>
    /\ file.orders = <<StoredOrder("o-1", <<I1, I2>>)>>
    /\ buf[SeqThread].orders = file.orders

\* thread u has returned from a successful create (op) of the id, and the
\* file is as its save_db wrote it: nothing has written since
Created(u, op, id) ==
    /\ Idle(u)
    /\ req[u].op = op
    /\ resp[u].code = 201
    /\ resp[u].body.id = id
    /\ file = JsonDumps(buf[u])

\* thread t runs a get of the id the create of thread u returned
GetsCreated(t, u) ==
    /\ t # u
    /\ \/ req[t].op = "get_product" /\ Created(u, "create_product", req[t].key)
       \/ req[t].op = "get_order" /\ Created(u, "create_order", req[t].key)

\* C16: create then get round-trips: a get by the id a successful
\* create-product or create-order returned, run on the file as the create
\* saved it, leaves the file as it is on its way to load_db and answers
\* 200 with a record equal to the record the create returned.
C16_RoundTrip ==
    [][\A t, u \in Threads :
          /\ (/\ GetsCreated(t, u)
              /\ pc[t] \in {"exists", "eread"}
              /\ pc'[t] # pc[t])
             => (file' = file /\ pc'[t] \in {"eread", "load"})
          /\ (/\ GetsCreated(t, u)
              /\ pc[t] = "load"
              /\ pc'[t] # "load")
             => /\ resp'[t].code = 200
                /\ resp'[t].body = resp[u].body]_vars

\* a get-order of "o-1" has answered with the order a create-order has
\* returned, its item of p-1 included, from a store of two products
C16_Witness ==
    \E t, u \in Threads :
        /\ Idle(t)
        /\ GetsCreated(t, u)
        /\ req[t].op = "get_order"
        /\ resp[t].code = 200
        /\ resp[t].body = resp[u].body
        /\ resp[t].body.items = <<[productId |-> "p-1", qty |-> 1]>>
        /\ Len(file.products) = 2

\* C17: load defaults instead of failing: on an absent, empty or blank
\* file ensure_db_exists writes the empty document before load_db reads;
\* load_db fails on malformed JSON only; of a JSON text it gives the
\* "products" and "orders" lists, and the empty sequence for a key that is
\* missing or holds no list (seen in the answers of the list operations).
C17_LoadDefaults ==
    [][\A t \in Threads :
          /\ (pc[t] = "ewrite" /\ pc'[t] = "load")
             => file' = JsonDumps(EmptyDoc)
          /\ (pc[t] = "load" /\ pc'[t] # "load")
             => /\ file.kind \notin {"absent", "blank"}
                /\ resp'[t].code = 500 => file.kind = "corrupt"
                /\ (file.kind = "json" /\ req[t].op = "list_products")
                   => resp'[t].body =
                         IF file.pk = "list" THEN file.products ELSE <<>>
                /\ (file.kind = "json" /\ req[t].op = "list_orders")
                   => resp'[t].body =
                         IF file.ok = "list" THEN file.orders ELSE <<>>]_vars

\* every item of every order of the document the file holds names a
\* product of the document
Referential(f) == ItemIds(ParseDb(f).data.orders) \subseteq IdsOf(ParseDb(f).data.products)

\* C18: referential integrity is a standing invariant: from an empty
\* store, under every interleaving of the operations, every item of every
\* order of the file names a product the file holds.
C18_ReferentialIntegrity == Referential(file)

\* the store has two products and an order with an item of each, after an
\* order of an item of a product the store did not hold was turned down
C18_Witness ==
    /\ file.kind = "json"
    /\ IdsOf(file.products) = {"p-1", "p-2"}
    /\ ItemIds(file.orders) = {"p-1", "p-2"}
    /\ \E t \in Threads :
          /\ Idle(t)
          /\ req[t].op = "create_order"
          /\ resp[t] = bad_request("productId does not exist")

\* thread u has returned from a create with a 201
Acknowledged(u) ==
    /\ Idle(u)
    /\ req[u].op \in {"create_product", "create_order"}
    /\ resp[u].code = 201

\* the document the file f holds has the record of the 201 response r
InFile(f, r) ==
    LET l == IF r.kind = "product" THEN ParseDb(f).data.products
             ELSE ParseDb(f).data.orders
    IN  \E i \in DOMAIN l : l[i] = r.body

\* C19: acknowledged writes survive concurrent reads: the record of a
\* create that has returned success stays in the file under every
\* interleaving with list and get operations: a step that takes it out of
\* the file is a step of the save_db of a write operation.
C19_AcknowledgedSurvive ==
    [][\A u \in Threads :
          (/\ Acknowledged(u)
           /\ InFile(file, resp[u])
           /\ ~InFile(file', resp[u]))
          => \E t \in Threads :
                /\ pc'[t] # pc[t]
                /\ req[t].op \in WriteOps
                /\ pc[t] \in {"save", "flush"}]_vars


====
